---- MODULE Spec2Model ----
(***************************************************************************)
(* A model of the SSTables storage engine: the write-ahead-logged          *)
(* memtable (src/src/memtable), the SSTable build and point lookup         *)
(* (src/src/sstable/table.rs), the k-way merge (src/src/compaction/mod.rs) *)
(* and the engine that coordinates them (src/src/engine/mod.rs).           *)
(*                                                                         *)
(* Conventions.  Option<T> is a tuple: None is <<>> and Some(x) is <<x>>.  *)
(* A key is a string, modelled as a sequence of non-zero bytes.  A record  *)
(* is the test type Dummy(String, i32): [key, val].  A file is a record    *)
(* [index, storage] of which one field is used: an index file is a         *)
(* sequence of (key slot, offset) entries, a storage file a sequence of    *)
(* encoded Option<Record> payloads.  The byte layout of an index entry is  *)
(* not modelled: entry i of the sequence is the entry at byte i * unit,    *)
(* so the stride K + O enters only where the code computes with it.        *)
(***************************************************************************)
EXTENDS Integers, Sequences, FiniteSets, TLC

(***************************************************************************)
(* Bounds of the model.                                                    *)
(***************************************************************************)
\* files under storage/ that a run may create (each flush or compaction adds one)
MaxFiles == 4
\* the same, in the runs of two threads
MaxFilesConc == 3
\* the same, in the runs that stop the process
MaxFilesCrash == 5
\* tables the in-memory list may hold when a flush begins
MaxTables == 2
\* operations the write-ahead log may hold
MaxLog == 3
\* the times the process may stop before an operation has completed
MaxCrashes == 1

(***************************************************************************)
(* Inputs.                                                                 *)
(***************************************************************************)
\* keys of one byte, keys longer than index_key_string_size that share their
\* first byte, and the key " "
Keys == {<<1>>, <<2>>, <<3>>, <<4>>, <<1, 2>>, <<1, 3>>, <<32>>}
\* Dummy(key, 10) and Dummy(key, 1000) encode in different lengths
Records ==
    {[key |-> <<1>>, val |-> 10], [key |-> <<1>>, val |-> 1000],
     [key |-> <<2>>, val |-> 10], [key |-> <<3>>, val |-> 10],
     [key |-> <<4>>, val |-> 10]}

\* records under the long keys and under the key " "
LongRecords ==
    {[key |-> <<1, 2>>, val |-> 10], [key |-> <<1, 3>>, val |-> 10],
     [key |-> <<32>>, val |-> 10]}

\* the client threads that call into one Engine
Threads == {"t1", "t2"}

\* a workload: per thread, the arguments of the calls its client code makes
\* and the number of files under storage/ that the run may create
Load(records1, deletes1, gets1, records2, gets2, compacts, max_files) ==
    [records |-> [t \in Threads |-> IF t = "t1" THEN records1 ELSE records2],
     deletes |-> [t \in Threads |-> IF t = "t1" THEN deletes1 ELSE {}],
     gets |-> [t \in Threads |-> IF t = "t1" THEN gets1 ELSE gets2],
     compacts |-> compacts, max_files |-> max_files]

RecordsOf(keys) == {r \in Records : r.key \in keys /\ r.val = 10}

MainLoad == Load(Records, {<<2>>}, {}, {}, {}, {"t1"}, MaxFiles)
SmallLoad ==
    Load(RecordsOf({<<1>>, <<2>>, <<3>>}), {<<2>>}, {}, {}, {}, {"t1"}, MaxFiles)
CrashLoad ==
    Load({r \in Records : r.key \in {<<1>>, <<2>>}}, {}, {}, {}, {}, {"t1"},
         MaxFilesCrash)
ConcLoad ==
    Load(RecordsOf({<<1>>, <<2>>}), {}, {}, RecordsOf({<<3>>}), {<<1>>}, {"t1"},
         MaxFilesConc)

\* Config (src/src/config.rs), scaled down: K + O = 2 bytes per index entry.
\* A memtable of 2 entries reaches the first threshold, of 3 the second.
ConfigFlush2 ==
    [index_key_string_size |-> 1, index_offset_size |-> 1,
     initial_index_file_threshold |-> 4, compaction_threshold |-> 1,
     compaction_tier_size |-> 4, compaction_size_multiplier |-> 2]
ConfigFlush3 ==
    [ConfigFlush2 EXCEPT !.initial_index_file_threshold = 6]

\* a memtable of 1 entry reaches the threshold
ConfigFlush1 ==
    [ConfigFlush2 EXCEPT !.initial_index_file_threshold = 2]

\* an index_offset_size that is not the width of a u64: a memtable of 2
\* entries reaches the threshold
ConfigOffset2 ==
    [ConfigFlush3 EXCEPT !.index_offset_size = 2]

\* a compaction_threshold of 0: a tier of one table has more tables than
\* the threshold
ConfigThreshold0 ==
    [ConfigFlush2 EXCEPT !.compaction_threshold = 0]

None == <<>>
Some(x) == <<x>>

Min(a, b) == IF a < b THEN a ELSE b

(***************************************************************************)
(* Strings: byte-lexicographic order, as String's Ord.                     *)
(***************************************************************************)
KeyLess(a, b) ==
    \/ Len(a) < Len(b) /\ \A j \in 1..Len(a) : a[j] = b[j]
    \/ \E i \in 1..Min(Len(a), Len(b)) :
          a[i] < b[i] /\ \A j \in 1..(i - 1) : a[j] = b[j]

MinKey(S) == CHOOSE k \in S : \A o \in S : o = k \/ KeyLess(k, o)

RECURSIVE SortedKeys(_)
SortedKeys(S) ==
    IF S = {} THEN <<>> ELSE <<MinKey(S)>> \o SortedKeys(S \ {MinKey(S)})

(***************************************************************************)
(* The codec: bincode's standard configuration.  Only the length of an     *)
(* encoding matters to the engine (offsets, file sizes).                   *)
(***************************************************************************)
VarintLen(u) == IF u < 251 THEN 1 ELSE IF u < 65536 THEN 3 ELSE 5

\* Option tag, then the string (length prefix and bytes), then the zigzag i32
EncodedLen(value) ==
    IF value = None THEN 1
    ELSE 1 + VarintLen(Len(value[1].key)) + Len(value[1].key)
           + VarintLen(2 * value[1].val)

RECURSIVE TotalLen(_)
TotalLen(payloads) ==
    IF payloads = <<>> THEN 0
    ELSE EncodedLen(Head(payloads)) + TotalLen(Tail(payloads))

\* the byte offset at which payload i of a storage file starts
OffsetOf(payloads, i) == TotalLen(SubSeq(payloads, 1, i - 1))

(***************************************************************************)
(* The memtable's ordered map (RBTree<String, Option<T>>) and its log.     *)
(***************************************************************************)
EmptyTree == <<>>

TreePut(tree, key, value) ==
    [k \in DOMAIN tree \cup {key} |-> IF k = key THEN value ELSE tree[k]]

\* tree.iter(): the entries in ascending key order
TreeIter(tree) ==
    LET ks == SortedKeys(DOMAIN tree)
    IN  [i \in 1..Len(ks) |-> [key |-> ks[i], value |-> tree[ks[i]]]]

\* The same RBTree as the sequence of its nodes in iteration order.
\* RBTree::insert adds a node whether or not the key has one; RBTree::remove
\* takes one node of the key out, if there is one.
RbInsert(nodes, key, value) ==
    LET n == Cardinality({i \in 1..Len(nodes) : ~KeyLess(key, nodes[i].key)})
    IN  SubSeq(nodes, 1, n) \o <<[key |-> key, value |-> value]>>
            \o SubSeq(nodes, n + 1, Len(nodes))

RbRemove(nodes, key) ==
    LET at == {i \in 1..Len(nodes) : nodes[i].key = key}
    IN  IF at = {} THEN nodes
        ELSE LET i == CHOOSE i \in at : \A j \in at : i <= j
             IN  SubSeq(nodes, 1, i - 1) \o SubSeq(nodes, i + 1, Len(nodes))

\* tree.insert(key, value) with no tree.remove(&key) before it
RbPutKeeping(nodes, key, value) == RbInsert(nodes, key, value)

\* tree.remove(&key); tree.insert(key, value)
RbPut(nodes, key, value) == RbInsert(RbRemove(nodes, key), key, value)

\* the nodes after the calls of MemTable::insert and MemTable::delete that
\* `ops` records, made in that order on a tree of `nodes`
RECURSIVE RbApply(_, _)
RbApply(ops, nodes) ==
    IF ops = <<>> THEN nodes
    ELSE LET o == Head(ops)
         IN  RbApply(Tail(ops),
                     IF o.op = "Insert"
                     THEN RbPut(nodes, o.key, Some([key |-> o.key, val |-> o.val]))
                     ELSE RbPut(nodes, o.key, None))

OpInsert(record) == [op |-> "Insert", key |-> record.key, val |-> record.val]
OpDelete(key) == [op |-> "Delete", key |-> key, val |-> 0]

\* what a failed write_all left in the log file: a proper prefix of an encoding
Torn(bytes) == [op |-> "Torn", bytes |-> bytes]

\* bincode's variable-length integers (values below 2^16)
EncodeVarint(u) == IF u < 251 THEN <<u>> ELSE <<251, u % 256, u \div 256>>

EncodeString(s) == EncodeVarint(Len(s)) \o s

\* an i32 is zigzag-encoded, then written as a varint
EncodeI32(v) == EncodeVarint(IF v >= 0 THEN 2 * v ELSE -2 * v - 1)

\* serialize(LogOperation): the variant index, then the variant's fields
EncodeOp(op) ==
    IF op.op = "Insert"
    THEN <<0>> \o EncodeString(op.key) \o EncodeI32(op.val)
    ELSE <<1>> \o EncodeString(op.key)

\* the bytes of the log file: every append's bytes, in written order
RECURSIVE LogBytes(_)
LogBytes(log) ==
    IF log = <<>> THEN <<>>
    ELSE (IF Head(log).op = "Torn" THEN Head(log).bytes ELSE EncodeOp(Head(log)))
         \o LogBytes(Tail(log))

\* a decoding step: a value and the bytes left, the end of the input met
\* (DecodeError::UnexpectedEnd, or Io with kind UnexpectedEof), or any other
\* DecodeError
Decoded(val, rest) == [res |-> "Ok", val |-> val, rest |-> rest]
Eof == [res |-> "Eof", val |-> <<>>, rest |-> <<>>]
Invalid == [res |-> "Err", val |-> <<>>, rest |-> <<>>]

\* (the markers 252..255 of wider integers are never written by this model)
DecodeVarint(bytes) ==
    IF bytes = <<>> THEN Eof
    ELSE IF bytes[1] < 251 THEN Decoded(bytes[1], Tail(bytes))
    ELSE IF bytes[1] > 251 THEN Invalid
    ELSE IF Len(bytes) < 3 THEN Eof
    ELSE Decoded(bytes[2] + 256 * bytes[3], SubSeq(bytes, 4, Len(bytes)))

\* a String: the length, that many bytes, which must be UTF-8
DecodeString(bytes) ==
    LET n == DecodeVarint(bytes)
    IN  IF n.res # "Ok" THEN n
        ELSE IF Len(n.rest) < n.val THEN Eof
        ELSE IF \E i \in 1..n.val : n.rest[i] >= 128 THEN Invalid
        ELSE Decoded(SubSeq(n.rest, 1, n.val),
                     SubSeq(n.rest, n.val + 1, Len(n.rest)))

DecodeI32(bytes) ==
    LET u == DecodeVarint(bytes)
    IN  IF u.res # "Ok" THEN u
        ELSE Decoded(IF u.val % 2 = 0 THEN u.val \div 2
                     ELSE -((u.val + 1) \div 2), u.rest)

\* decode of one LogOperation
DecodeOp(bytes) ==
    LET tag == DecodeVarint(bytes)
    IN  IF tag.res # "Ok" THEN tag
        ELSE IF tag.val > 1 THEN Invalid
        ELSE LET key == DecodeString(tag.rest)
             IN  IF key.res # "Ok" THEN key
                 ELSE IF tag.val = 1
                 THEN Decoded([op |-> "Delete", key |-> key.val, val |-> 0],
                              key.rest)
                 ELSE LET val == DecodeI32(key.rest)
                      IN  IF val.res # "Ok" THEN val
                          ELSE Decoded([op |-> "Insert", key |-> key.val,
                                        val |-> val.val], val.rest)

\* MemTableLogReader::next_op: Ok(Some(op)), Ok(None) for both end-of-input
\* errors, Err for any other
NextOp(bytes) == DecodeOp(bytes)

\* the operations `while let Some(op) = reader.next_op()?` yields, or Err
RECURSIVE ReadOps(_)
ReadOps(bytes) ==
    LET r == NextOp(bytes)
    IN  IF r.res = "Eof" THEN [res |-> "Ok", ops |-> <<>>]
        ELSE IF r.res = "Err" THEN [res |-> "Err", ops |-> <<>>]
        ELSE LET more == ReadOps(r.rest)
             IN  IF more.res = "Err" THEN more
                 ELSE [res |-> "Ok", ops |-> <<r.val>> \o more.ops]

\* MemTable::get
MemGet(tree, key) == IF key \in DOMAIN tree THEN Some(tree[key]) ELSE None

\* a replay in which a logged Delete removes the key's entry
RECURSIVE ReplayRemoving(_, _)
ReplayRemoving(ops, tree) ==
    IF ops = <<>> THEN tree
    ELSE LET o == Head(ops)
         IN  ReplayRemoving(Tail(ops),
                 IF o.op = "Insert"
                 THEN TreePut(tree, o.key, Some([key |-> o.key, val |-> o.val]))
                 ELSE [k \in DOMAIN tree \ {o.key} |-> tree[k]])

\* MemTable::build_from: replay of the log, in written order
RECURSIVE Replay(_, _)
Replay(ops, tree) ==
    IF ops = <<>> THEN tree
    ELSE LET o == Head(ops)
         IN  Replay(Tail(ops),
                    IF o.op = "Insert"
                    THEN TreePut(tree, o.key, Some([key |-> o.key, val |-> o.val]))
                    ELSE TreePut(tree, o.key, None))

\* MemTable::open_or_build on an existing log file: [res, tree]
BuildFrom(log) ==
    LET r == ReadOps(LogBytes(log))
    IN  IF r.res = "Err" THEN [res |-> "Err", tree |-> EmptyTree]
        ELSE [res |-> "Ok", tree |-> Replay(r.ops, EmptyTree)]

\* MemTable::len
MemLen(tree) == Cardinality(DOMAIN tree)

(***************************************************************************)
(* SSTable files.                                                          *)
(***************************************************************************)
\* the K-byte key slot of an index entry: the key cut to K bytes, zero-padded
KeySlot(key, K) == [i \in 1..K |-> IF i <= Len(key) THEN key[i] ELSE 0]

\* trim_end_matches('\0')
RECURSIVE TrimNul(_)
TrimNul(bytes) ==
    IF bytes # <<>> /\ bytes[Len(bytes)] = 0
    THEN TrimNul(SubSeq(bytes, 1, Len(bytes) - 1))
    ELSE bytes

StorageFile(payloads) == [index |-> <<>>, storage |-> payloads]
IndexFile(entries) == [index |-> entries, storage |-> <<>>]

\* offset.to_le_bytes(): an index entry's offset is the eight bytes of a u64,
\* the unit in which the scaled-down configurations count index_offset_size
OffsetSlot == 1

\* the length of the index file that holds `entries`: each entry is the
\* K-byte key slot and the offset, which is written whole
IndexFileLen(entries, cfg) ==
    Len(entries) * (cfg.index_key_string_size + OffsetSlot)

\* the payloads SSTable::create streams to the storage file
CreatePayloads(tree) ==
    LET it == TreeIter(tree) IN [i \in 1..Len(it) |-> it[i].value]

\* the index entries SSTable::create writes
CreateIndex(tree, cfg) ==
    LET it == TreeIter(tree)
        ps == CreatePayloads(tree)
    IN  [i \in 1..Len(it) |->
            [key |-> KeySlot(it[i].key, cfg.index_key_string_size),
             offset |-> OffsetOf(ps, i)]]

\* the descriptor SSTable::create returns
CreateTable(storage_path, index_path, tree) ==
    LET it == TreeIter(tree)
    IN  [storage_path |-> storage_path, index_path |-> index_path,
         min |-> it[1].key, max |-> it[Len(it)].key,
         size |-> TotalLen(CreatePayloads(tree)),
         count |-> Cardinality(DOMAIN tree)]

\* a create that tests the tree and the storage path, not the index path
CreateRefusesStorage(storage_path, index_path, tree, files) ==
    \/ DOMAIN tree = {}
    \/ storage_path \in DOMAIN files

\* SSTable::create's refusals: an empty tree, an existing target
CreateRefuses(storage_path, index_path, tree, files) ==
    \/ DOMAIN tree = {}
    \/ storage_path \in DOMAIN files
    \/ index_path \in DOMAIN files

(***************************************************************************)
(* SSTable::get and Engine::get.  A result is [res, val]: res is "Ok",     *)
(* "Err" (an SSTableError value) or "Panic" (an unwrap or expect that      *)
(* aborts the calling thread).                                             *)
(***************************************************************************)
Ok(v) == [res |-> "Ok", val |-> v]
Err == [res |-> "Err", val |-> None]
Panic == [res |-> "Panic", val |-> None]

PairSize(cfg) == cfg.index_key_string_size + cfg.index_offset_size

\* the key read from index entry i (0-based), NUL padding trimmed
IndexKeyAt(entries, i) == TrimNul(entries[i + 1].key)

\* the lower-bound loop of SSTable::get; -1 when read_exact runs past the file
RECURSIVE BinarySearch(_, _, _, _)
BinarySearch(entries, key, lo, hi) ==
    IF lo >= hi THEN lo
    ELSE LET mid == (lo + hi) \div 2
         IN  IF mid >= Len(entries) THEN -1
             ELSE IF KeyLess(IndexKeyAt(entries, mid), key)
                  THEN BinarySearch(entries, key, mid + 1, hi)
                  ELSE BinarySearch(entries, key, lo, mid)

\* SSTable::load_record: open(storage).unwrap(), seek, deserialize().unwrap()
LoadRecord(storage, offset, files) ==
    IF storage \notin DOMAIN files THEN Panic
    ELSE LET ps == files[storage].storage
             at == {i \in 1..Len(ps) : OffsetOf(ps, i) = offset}
         IN  IF at = {} THEN Panic ELSE Ok(ps[CHOOSE i \in at : TRUE])

\* SSTable::get: Ok(None) not in this table, Ok(Some(None)) a tombstone,
\* Ok(Some(Some(r))) a live record
SSTableGet(table, key, files, cfg) ==
    IF KeyLess(table.max, key) \/ KeyLess(key, table.min) THEN Ok(None)
    ELSE IF table.index_path \notin DOMAIN files THEN Err
    ELSE IF table.count % PairSize(cfg) # 0 THEN Err
    ELSE LET entries == files[table.index_path].index
             lo == BinarySearch(entries, key, 0, table.count)
         IN  IF lo = -1 THEN Err
             ELSE IF lo < table.size
             THEN IF lo >= Len(entries) THEN Err
                  ELSE IF IndexKeyAt(entries, lo) = key
                  THEN LET r == LoadRecord(table.storage_path,
                                           entries[lo + 1].offset, files)
                       IN  IF r.res = "Ok" THEN Ok(Some(r.val)) ELSE Panic
                  ELSE Ok(None)
             ELSE Ok(None)

\* the newest-first walk of Engine::get over tables[1..i]
RECURSIVE WalkTables(_, _, _, _, _)
WalkTables(tables, i, key, files, cfg) ==
    IF i = 0 THEN Ok(None)
    ELSE LET lookup == SSTableGet(tables[i], key, files, cfg)
         IN  IF lookup.res # "Ok" THEN Panic
             ELSE IF lookup.val # None THEN Ok(lookup.val[1])
             ELSE WalkTables(tables, i - 1, key, files, cfg)

\* Engine::get on an engine state e = [tree, log, sstables, files, ...]
EngineGet(e, key, cfg) ==
    LET memlookup == MemGet(e.tree, key)
    IN  IF memlookup # None THEN Ok(memlookup[1])
        ELSE WalkTables(e.sstables, Len(e.sstables), key, e.files, cfg)

(***************************************************************************)
(* compaction::compact: the k-way merge.  A heap entry is [key, reader,    *)
(* value, pos]; pos (the entry's place in its input) only tells apart two  *)
(* entries of one input.  The loop state is [pos, heap, out, panic].       *)
(***************************************************************************)
IndexOf(table, files) == files[table.index_path].index

\* the readers whose index file still has an entry: read_next_key is Some
Readable(tables, files, pos) ==
    {i \in 1..Len(tables) : pos[i] < Len(IndexOf(tables[i], files))}

\* read_next_key on reader i, which has read pos entries so far
ReadNextKey(tables, files, i, pos) ==
    LET e == IndexOf(tables[i], files)[pos + 1]
        r == LoadRecord(tables[i].storage_path, e.offset, files)
    IN  [key |-> TrimNul(e.key), reader |-> i, value |-> r.val, pos |-> pos]

\* one read_next_key on every reader, each result pushed on the heap
ReadRound(tables, files, st) ==
    LET rd == Readable(tables, files, st.pos)
    IN  [st EXCEPT
           !.pos = [i \in DOMAIN st.pos |->
                       IF i \in rd THEN st.pos[i] + 1 ELSE st.pos[i]],
           !.heap = st.heap \cup
                    {ReadNextKey(tables, files, i, st.pos[i]) : i \in rd}]

\* versions.into_iter().min_by_key(|entry| entry.reader): the version of the
\* lowest-ranked reader
OldestVersion(versions) ==
    CHOOSE e \in versions :
        \A o \in versions :
            o.reader > e.reader \/ (o.reader = e.reader /\ o.pos >= e.pos)

\* versions.into_iter().max_by_key(|entry| entry.reader)
NewestVersion(versions) ==
    CHOOSE e \in versions :
        \A o \in versions :
            o.reader < e.reader \/ (o.reader = e.reader /\ o.pos <= e.pos)

\* the main loop: the entries written to the output, in order
RECURSIVE MergeLoop(_, _, _)
MergeLoop(tables, files, st) ==
    IF st.heap = {} \/ st.panic THEN st
    ELSE LET current_key == MinKey({e.key : e \in st.heap})
             st1 == ReadRound(tables, files, st)
             \* the pops stop at the first entry whose key is not current_key
             versions ==
                 IF MinKey({e.key : e \in st1.heap}) = current_key
                 THEN {e \in st1.heap : e.key = current_key}
                 ELSE {}
         IN  IF versions = {} THEN [st1 EXCEPT !.panic = TRUE]
             ELSE LET entry == NewestVersion(versions)
                  IN  MergeLoop(tables, files,
                          [st1 EXCEPT
                             !.heap = @ \ versions,
                             !.out = Append(@, [key |-> entry.key,
                                                value |-> entry.value])])

\* the entries compact writes for the inputs `tables` (oldest first)
Merge(tables, files) ==
    MergeLoop(tables, files,
              ReadRound(tables, files,
                        [pos |-> [i \in 1..Len(tables) |-> 0],
                         heap |-> {}, out |-> <<>>, panic |-> FALSE]))

\* compact panics: no input, an input file that cannot be opened or decoded,
\* an empty heap after seeding
CompactPanics(tables, files) ==
    \/ tables = <<>>
    \/ \E i \in 1..Len(tables) :
          \/ tables[i].index_path \notin DOMAIN files
          \/ tables[i].storage_path \notin DOMAIN files
          \/ \E j \in 1..Len(IndexOf(tables[i], files)) :
                LoadRecord(tables[i].storage_path,
                           IndexOf(tables[i], files)[j].offset, files).res # "Ok"
    \/ Merge(tables, files).panic
    \/ Merge(tables, files).out = <<>>

MergedPayloads(out) == [i \in 1..Len(out) |-> out[i].value]

MergedIndex(out, cfg) ==
    [i \in 1..Len(out) |->
        [key |-> KeySlot(out[i].key, cfg.index_key_string_size),
         offset |-> OffsetOf(MergedPayloads(out), i)]]

\* compact(tables, serializer, config, new_storage_path, new_index_path):
\* the descriptor it returns
CompactTable(tables, files, new_storage_path, new_index_path) ==
    LET out == Merge(tables, files).out
        ks == {out[i].key : i \in 1..Len(out)}
    IN  [storage_path |-> new_storage_path, index_path |-> new_index_path,
         min |-> MinKey(ks),
         max |-> CHOOSE k \in ks : \A o \in ks : o = k \/ KeyLess(o, k),
         size |-> TotalLen(MergedPayloads(out)),
         count |-> Len(out)]

(***************************************************************************)
(* The engine.  An engine state e is the record                            *)
(*   tree, log    the memtable's map and the write-ahead log file          *)
(*   sstables     the in-memory list, oldest first                         *)
(*   files        the files under storage/ and indices/, by path           *)
(*   manifest     the lines of the file at metadata/<TypeName>.meta        *)
(*   metadata     the engine's open manifest handle: "linked" while the    *)
(*                file it holds is still the one at that path, "unlinked"  *)
(*                once a rename has put another file there                 *)
(***************************************************************************)
StorageCount(files) == Cardinality({p \in DOMAIN files : p[1] = "storage"})

\* get_next_index_storage_logs_name returns (index_path, storage_path)
NextIndexPath(files) == <<"indices", StorageCount(files)>>
NextStoragePath(files) == <<"storage", StorageCount(files)>>

WriteFile(files, path, content) ==
    [p \in DOMAIN files \cup {path} |-> IF p = path THEN content ELSE files[p]]

\* a manifest line: the fields that split(" ") yields
Space == 32

RECURSIVE SplitSpaces(_, _)
SplitSpaces(bytes, field) ==
    IF bytes = <<>> THEN <<field>>
    ELSE IF Head(bytes) = Space
         THEN <<field>> \o SplitSpaces(Tail(bytes), <<>>)
         ELSE SplitSpaces(Tail(bytes), Append(field, Head(bytes)))

FormatLine(table) ==
    <<table.storage_path, table.index_path>>
        \o SplitSpaces(table.min, <<>>) \o SplitSpaces(table.max, <<>>)
        \o <<table.count, table.size>>

LineCorrupt(line) == Len(line) # 6

ParseLine(line) ==
    [storage_path |-> line[1], index_path |-> line[2],
     min |-> line[3], max |-> line[4], size |-> line[6], count |-> line[5]]

\* Engine::read_sstables
ReadSSTables(manifest) == [i \in 1..Len(manifest) |-> ParseLine(manifest[i])]

\* MemTableLog::append, and the tree.remove + tree.insert pair
LogAppend(e, op) == [e EXCEPT !.log = Append(@, op)]

TreeSet(e, key, value) == [e EXCEPT !.tree = TreePut(@, key, value)]

\* MemTable::insert (log, then tree) and MemTable::delete (tree, then log)
MemInsert(e, record) ==
    TreeSet(LogAppend(e, OpInsert(record)), record.key, Some(record))

MemDelete(e, key) == LogAppend(TreeSet(e, key, None), OpDelete(key))

\* MemTableLog::append when write_all put n bytes of the encoding into the
\* file: all of them and Ok, or fewer and the io::Error
LogWrite(e, op, n) ==
    IF n = Len(EncodeOp(op)) THEN LogAppend(e, op)
    ELSE IF n = 0 THEN e
    ELSE [e EXCEPT !.log = Append(@, Torn(SubSeq(EncodeOp(op), 1, n)))]

\* MemTable::insert: `self.log.append(..)?` returns the error before the tree
\* is touched
MemInsertIO(e, record, n) ==
    IF n = Len(EncodeOp(OpInsert(record))) THEN MemInsert(e, record)
    ELSE LogWrite(e, OpInsert(record), n)

\* MemTable::delete: tree.remove and tree.insert, then `self.log.append(..)?`
MemDeleteIO(e, key, n) == LogWrite(TreeSet(e, key, None), OpDelete(key), n)

\* MemTable::clear: tree.clear(), then log.clear()
TreeClear(e) == [e EXCEPT !.tree = EmptyTree]

LogClear(e) == [e EXCEPT !.log = <<>>]

MemClear(e) == LogClear(TreeClear(e))

\* flush_if_ready with no threshold test
FlushAlways(e, cfg) == TRUE

\* the flush test of flush_if_ready
FlushReady(e, cfg) ==
    PairSize(cfg) * Cardinality(DOMAIN e.tree) >= cfg.initial_index_file_threshold

\* the steps of a flush, in the order flush_if_ready takes them
CreateStorageFile(e, storage_path) ==
    [e EXCEPT !.files = WriteFile(@, storage_path,
                                  StorageFile(CreatePayloads(e.tree)))]

CreateIndexFile(e, index_path, cfg) ==
    [e EXCEPT !.files = WriteFile(@, index_path,
                                  IndexFile(CreateIndex(e.tree, cfg)))]

AddSSTableToMetadata(e, table) ==
    IF e.metadata = "linked"
    THEN [e EXCEPT !.manifest = Append(@, FormatLine(table))]
    ELSE e

PushTable(e, table) == [e EXCEPT !.sstables = Append(@, table)]

FlushTable(e) ==
    CreateTable(NextStoragePath(e.files), NextIndexPath(e.files), e.tree)

FlushPanics(e) ==
    CreateRefuses(NextStoragePath(e.files), NextIndexPath(e.files),
                  e.tree, e.files)

Flush(e, cfg) ==
    LET table == FlushTable(e)
        e1 == CreateStorageFile(e, table.storage_path)
        e2 == CreateIndexFile(e1, table.index_path, cfg)
        e3 == AddSSTableToMetadata(e2, table)
        e4 == MemClear(e3)
    IN  PushTable(e4, table)

(***************************************************************************)
(* Engine::compact.                                                        *)
(***************************************************************************)
RECURSIVE Pow(_, _)
Pow(b, n) == IF n = 0 THEN 1 ELSE b * Pow(b, n - 1)

\* (size / T).log(B).floor() as usize: the cast sends a negative value to 0
TierOf(size, cfg) ==
    LET T == cfg.compaction_tier_size
        B == cfg.compaction_size_multiplier
    IN  IF size < T THEN 0
        ELSE CHOOSE t \in 0..size :
                T * Pow(B, t) <= size /\ size < T * Pow(B, t + 1)

\* the list positions of a tier, ascending
TierIndices(tables, tier, cfg) ==
    SelectSeq([i \in 1..Len(tables) |-> i],
              LAMBDA i : TierOf(tables[i].size, cfg) = tier)

\* the tiers `find` may return: HashMap iteration order is unspecified
QualifyingTiers(tables, cfg) ==
    {tier \in {TierOf(tables[i].size, cfg) : i \in 1..Len(tables)} :
        Len(TierIndices(tables, tier, cfg)) > cfg.compaction_threshold}

TargetTables(tables, indices) ==
    [j \in 1..Len(indices) |-> tables[indices[j]]]

\* Engine::compact hands (new_index_path, new_storage_path) to parameters
\* declared (new_storage_path, new_index_path)
CompactStoragePath(files) == NextIndexPath(files)
CompactIndexPath(files) == NextStoragePath(files)

CompactedTable(e, indices) ==
    CompactTable(TargetTables(e.sstables, indices), e.files,
                 CompactStoragePath(e.files), CompactIndexPath(e.files))

\* index_file.persist(&new_index_path), storage_file.persist(&new_storage_path)
PersistIndex(e, table, out, cfg) ==
    [e EXCEPT !.files = WriteFile(@, table.index_path,
                                  IndexFile(MergedIndex(out, cfg)))]

PersistStorage(e, table, out) ==
    [e EXCEPT !.files = WriteFile(@, table.storage_path,
                                  StorageFile(MergedPayloads(out)))]

\* Vec::remove(i): the elements after position i move down by one
RemoveAt(tables, i) ==
    SubSeq(tables, 1, i - 1) \o SubSeq(tables, i + 1, Len(tables))

\* `for other_idx in indices.iter().rev()`: from indices[j] down to the first,
\* every index but last_idx is removed from the list
RECURSIVE RemoveOthers(_, _, _)
RemoveOthers(tables, indices, j) ==
    IF j = 0 THEN tables
    ELSE IF indices[j] = indices[Len(indices)]
         THEN RemoveOthers(tables, indices, j - 1)
         ELSE RemoveOthers(RemoveAt(tables, indices[j]), indices, j - 1)

\* tables[last_idx] = compacted_table and nothing removed
AssignOnly(tables, indices, compacted) ==
    [tables EXCEPT ![indices[Len(indices)]] = compacted]

\* tables[last_idx] = compacted_table, then the other indices removed
ReplaceTables(tables, indices, compacted) ==
    RemoveOthers([tables EXCEPT ![indices[Len(indices)]] = compacted],
                 indices, Len(indices))

SwapTables(e, indices, compacted) ==
    [e EXCEPT !.sstables = ReplaceTables(@, indices, compacted)]

\* Engine::create_metadata: a temporary file renamed over the manifest path
CreateMetadata(e) ==
    [e EXCEPT !.manifest = [i \in 1..Len(e.sstables) |->
                               FormatLine(e.sstables[i])],
              !.metadata = "unlinked"]

CompactTier(e, tier, cfg) ==
    LET indices == TierIndices(e.sstables, tier, cfg)
        out == Merge(TargetTables(e.sstables, indices), e.files).out
        table == CompactedTable(e, indices)
        e1 == PersistIndex(e, table, out, cfg)
        e2 == PersistStorage(e1, table, out)
        e3 == SwapTables(e2, indices, table)
    IN  CreateMetadata(e3)

\* Engine::compact on the engine state e: the outcomes the HashMap's order
\* allows, each a return with the state left behind or a panic
EngineCompact(e, cfg) ==
    IF QualifyingTiers(e.sstables, cfg) = {} THEN {[res |-> "Ok", e |-> e]}
    ELSE {IF CompactPanics(TargetTables(e.sstables,
                               TierIndices(e.sstables, tier, cfg)), e.files)
          THEN [res |-> "Panic", e |-> e]
          ELSE [res |-> "Ok", e |-> CompactTier(e, tier, cfg)] :
             tier \in QualifyingTiers(e.sstables, cfg)}

(***************************************************************************)
(* Engine::new on what is on disk.                                         *)
(***************************************************************************)
OpenPanics(e) == \E i \in 1..Len(e.manifest) : LineCorrupt(e.manifest[i])

\* Engine::new: "Err" is an EngineError value (MemtableInitialization),
\* "Panic" the panic! and unwraps of read_sstables, "Ok" an engine
NewResult(e) ==
    IF BuildFrom(e.log).res = "Err" THEN "Err"
    ELSE IF OpenPanics(e) THEN "Panic"
    ELSE "Ok"

Open(e) ==
    [e EXCEPT !.tree = BuildFrom(e.log).tree,
              !.sstables = ReadSSTables(e.manifest),
              !.metadata = "linked"]

(***************************************************************************)
(* State.                                                                  *)
(***************************************************************************)
VARIABLES
    tree,        \* Engine.memtable.tree
    log,         \* the file logs/<TypeName>.log
    sstables,    \* Engine.sstables
    files,       \* the files under storage/ and indices/
    manifest,    \* the file metadata/<TypeName>.meta
    metadata,    \* Engine.metadata, the open manifest handle
    config,      \* Engine.config
    status,      \* "open": an engine lives; "down": the process is gone;
                 \* "failed": Engine::new returned an error, there is no engine
    flush_mutex, \* Engine.flush_mutex: the thread that holds it, or "none"
    list_lock,   \* the RwLock of Engine.sstables: its writer, "none", "poisoned"
    tree_lock,   \* the RwLock of memtable.tree: its reader across steps, "none"
    pc,          \* per thread, the step of the call it is in
    local,       \* per thread, the locals of that call
    workload,    \* per thread, the calls the client code makes
    crashes,     \* how many times the process has stopped
    acked        \* history: per key, the last mutation that returned Ok

vars ==
    <<tree, log, sstables, files, manifest, metadata, config, status,
      flush_mutex, list_lock, tree_lock, pc, local, workload, crashes, acked>>

sync == <<flush_mutex, list_lock, tree_lock, pc, local>>

\* the engine state as one record, and its assignment
Cur ==
    [tree |-> tree, log |-> log, sstables |-> sstables, files |-> files,
     manifest |-> manifest, metadata |-> metadata]

Set(e) ==
    /\ tree' = e.tree
    /\ log' = e.log
    /\ sstables' = e.sstables
    /\ files' = e.files
    /\ manifest' = e.manifest
    /\ metadata' = e.metadata

\* the process ends (a panic on the calling thread, a crash, a drop): what
\* is in memory is gone, what is on disk stays
Down(e) ==
    /\ Set([e EXCEPT !.tree = EmptyTree, !.sstables = <<>>,
                     !.metadata = "linked"])
    /\ status' = "down"

\* Engine::new returned Err: the caller holds no engine
Failed(e) ==
    /\ Set([e EXCEPT !.tree = EmptyTree, !.sstables = <<>>,
                     !.metadata = "linked"])
    /\ status' = "failed"

\* the locals of a thread that is in no call
\* (before, snap, inputs and raced are history: what every get returned when
\* the flush or compaction began, the keys the flush wrote to its SSTable,
\* the compaction's input files as they were, and whether the mutation was
\* applied while another thread was between SSTable::create and clear)
NoLocal ==
    [arg |-> <<>>, paths |-> <<>>, table |-> <<>>, indices |-> <<>>,
     out |-> <<>>, ret |-> <<>>,
     before |-> <<>>, snap |-> {}, inputs |-> <<>>, raced |-> FALSE]

\* what Engine::get returns for every key of the workload
GetAll(e, cfg) == [k \in Keys |-> EngineGet(e, k, cfg)]

InitWith(cfg, load) ==
    /\ config = cfg
    /\ workload = load
    /\ crashes = 0
    /\ tree = EmptyTree
    /\ log = <<>>
    /\ sstables = <<>>
    /\ files = <<>>
    /\ manifest = <<>>
    /\ metadata = "linked"
    /\ status = "open"
    /\ flush_mutex = "none"
    /\ list_lock = "none"
    /\ tree_lock = "none"
    /\ pc = [t \in Threads |-> "idle"]
    /\ local = [t \in Threads |-> NoLocal]
    /\ acked = [k \in Keys |-> None]

(***************************************************************************)
(* The public operations, each run to completion by a single caller.       *)
(***************************************************************************)
\* the history after a mutation of `key` returned (status' = "open") or died
Acked(key, value) ==
    acked' = IF status' = "open" THEN [acked EXCEPT ![key] = Some(value)]
             ELSE [acked EXCEPT ![key] = None]

\* Engine::flush_if_ready after a mutation left the engine in e1
FlushIfReady(e1) ==
    IF ~FlushReady(e1, config) THEN Set(e1) /\ status' = status
    ELSE /\ StorageCount(e1.files) < workload.max_files
         /\ Len(e1.sstables) <= MaxTables
         /\ IF FlushPanics(e1) THEN Down(e1)
            ELSE Set(Flush(e1, config)) /\ status' = status

\* Engine::insert
Insert(record) ==
    /\ status = "open"
    /\ Len(log) < MaxLog
    /\ FlushIfReady(MemInsert(Cur, record))
    /\ Acked(record.key, Some(record))
    /\ UNCHANGED <<config, workload, crashes, sync>>

\* Engine::delete
Delete(key) ==
    /\ status = "open"
    /\ Len(log) < MaxLog
    /\ FlushIfReady(MemDelete(Cur, key))
    /\ Acked(key, None)
    /\ UNCHANGED <<config, workload, crashes, sync>>

\* Engine::insert and Engine::delete when write_all fails in the log append:
\* `?` returns the error and flush_if_ready is not called
InsertFails(record) ==
    /\ status = "open"
    /\ Len(log) < MaxLog
    /\ \E n \in 0..(Len(EncodeOp(OpInsert(record))) - 1) :
          Set(MemInsertIO(Cur, record, n))
    /\ UNCHANGED <<config, status, workload, crashes, acked, sync>>

DeleteFails(key) ==
    /\ status = "open"
    /\ Len(log) < MaxLog
    /\ \E n \in 0..(Len(EncodeOp(OpDelete(key))) - 1) :
          Set(MemDeleteIO(Cur, key, n))
    /\ UNCHANGED <<config, status, workload, crashes, acked, sync>>

\* Engine::compact
Compact ==
    /\ status = "open"
    /\ QualifyingTiers(sstables, config) # {}
          => StorageCount(files) < workload.max_files
    /\ \E o \in EngineCompact(Cur, config) :
          IF o.res = "Panic" THEN Down(Cur)
          ELSE Set(o.e) /\ status' = status
    /\ UNCHANGED <<config, workload, crashes, sync, acked>>

\* the engine is dropped (no call is running) or the process was down, and
\* Engine::new runs on what the disk holds
Reopen ==
    /\ status = "open" => \A t \in Threads : pc[t] = "idle"
    /\ IF NewResult(Cur) = "Ok" THEN Set(Open(Cur)) /\ status' = "open"
       ELSE IF NewResult(Cur) = "Panic" THEN Down(Cur)
       ELSE Failed(Cur)
    /\ flush_mutex' = "none"
    /\ list_lock' = "none"
    /\ tree_lock' = "none"
    /\ pc' = [t \in Threads |-> "idle"]
    /\ local' = [t \in Threads |-> NoLocal]
    /\ UNCHANGED <<config, workload, crashes, acked>>

\* MemTable::insert and MemTable::delete called on the memtable alone (they
\* take &mut self), with every outcome of the log's write_all; the caller
\* keeps the call and its result in local[t].arg and local[t].ret
MemTableInsert(t, record) ==
    /\ status = "open" /\ pc[t] = "idle"
    /\ Len(log) < MaxLog
    /\ \E n \in 0..Len(EncodeOp(OpInsert(record))) :
          /\ Set(MemInsertIO(Cur, record, n))
          /\ local' = [local EXCEPT ![t] =
                 [NoLocal EXCEPT
                     !.arg = OpInsert(record),
                     !.ret = IF n = Len(EncodeOp(OpInsert(record)))
                             THEN Ok(None) ELSE Err]]
    /\ UNCHANGED <<config, status, workload, crashes, acked,
                   flush_mutex, list_lock, tree_lock, pc>>

MemTableDelete(t, key) ==
    /\ status = "open" /\ pc[t] = "idle"
    /\ Len(log) < MaxLog
    /\ \E n \in 0..Len(EncodeOp(OpDelete(key))) :
          /\ Set(MemDeleteIO(Cur, key, n))
          /\ local' = [local EXCEPT ![t] =
                 [NoLocal EXCEPT
                     !.arg = OpDelete(key),
                     !.ret = IF n = Len(EncodeOp(OpDelete(key)))
                             THEN Ok(None) ELSE Err]]
    /\ UNCHANGED <<config, status, workload, crashes, acked,
                   flush_mutex, list_lock, tree_lock, pc>>

\* the file numbers a direct caller of SSTable::create names its paths with
CreateNames == {0, 1}

\* SSTable::create called on the memtable's tree with paths of the caller's
\* choice: the refusals, then the storage file, the index file and the
\* descriptor; the caller keeps the paths and the result in local[t]
SSTableCreate(t, storage_path, index_path) ==
    /\ status = "open" /\ pc[t] = "idle"
    /\ IF CreateRefuses(storage_path, index_path, tree, files)
       THEN /\ Set(Cur)
            /\ local' = [local EXCEPT ![t] =
                   [NoLocal EXCEPT
                       !.paths = [storage_path |-> storage_path,
                                  index_path |-> index_path],
                       !.ret = Err]]
       ELSE /\ Set(CreateIndexFile(CreateStorageFile(Cur, storage_path),
                                   index_path, config))
            /\ local' = [local EXCEPT ![t] =
                   [NoLocal EXCEPT
                       !.paths = [storage_path |-> storage_path,
                                  index_path |-> index_path],
                       !.table = CreateTable(storage_path, index_path, tree),
                       !.ret = Ok(None)]]
    /\ UNCHANGED <<config, status, workload, crashes, acked,
                   flush_mutex, list_lock, tree_lock, pc>>

(***************************************************************************)
(* The same operations step by step, one thread t per call.  pc[t] names   *)
(* the step the thread takes next; a step is the code between two points   *)
(* where another thread, or the end of the process, can be observed.       *)
(***************************************************************************)
Goto(t, label, l) ==
    /\ pc' = [pc EXCEPT ![t] = label]
    /\ local' = [local EXCEPT ![t] = l]

\* an unwrap or a panic! on thread t: the thread is gone, its guards are
\* dropped, a write-locked RwLock is left poisoned
ThreadPanic(t) ==
    /\ Goto(t, "panicked", local[t])
    /\ flush_mutex' = IF flush_mutex = t THEN "none" ELSE flush_mutex
    /\ tree_lock' = IF tree_lock = t THEN "none" ELSE tree_lock
    /\ list_lock' = IF list_lock = t THEN "poisoned" ELSE list_lock

\* the record an Insert operation carries
RecordOf(op) == [key |-> op.key, val |-> op.val]

\* another thread has built its SSTable from the tree and not yet cleared it
FlushPastSnapshot(t) ==
    \E u \in Threads \ {t} : pc[u] \in {"flush_add_metadata", "flush_clear_tree"}

\* Engine::insert, MemTable::insert: log.append
CallInsert(t, record) ==
    /\ status = "open" /\ pc[t] = "idle"
    /\ Len(log) < MaxLog
    /\ Set(LogAppend(Cur, OpInsert(record)))
    /\ Goto(t, "insert_tree", [local[t] EXCEPT !.arg = OpInsert(record)])
    /\ UNCHANGED <<config, status, workload, crashes, acked,
                   flush_mutex, list_lock, tree_lock>>

\* MemTable::insert: tree.remove, tree.insert
InsertTree(t) ==
    /\ status = "open" /\ pc[t] = "insert_tree"
    /\ tree_lock = "none"
    /\ Set(TreeSet(Cur, local[t].arg.key, Some(RecordOf(local[t].arg))))
    /\ Goto(t, "flush_lock", [local[t] EXCEPT !.raced = FlushPastSnapshot(t)])
    /\ UNCHANGED <<config, status, workload, crashes, acked,
                   flush_mutex, list_lock, tree_lock>>

\* Engine::delete, MemTable::delete: tree.remove, tree.insert
CallDelete(t, key) ==
    /\ status = "open" /\ pc[t] = "idle"
    /\ Len(log) < MaxLog
    /\ tree_lock = "none"
    /\ Set(TreeSet(Cur, key, None))
    /\ Goto(t, "delete_log", [local[t] EXCEPT !.arg = OpDelete(key),
                                             !.raced = FlushPastSnapshot(t)])
    /\ UNCHANGED <<config, status, workload, crashes, acked,
                   flush_mutex, list_lock, tree_lock>>

\* MemTable::delete: log.append
DeleteLog(t) ==
    /\ status = "open" /\ pc[t] = "delete_log"
    /\ Set(LogAppend(Cur, local[t].arg))
    /\ Goto(t, "flush_lock", local[t])
    /\ UNCHANGED <<config, status, workload, crashes, acked,
                   flush_mutex, list_lock, tree_lock>>

\* the mutation local[t].arg returns Ok(())
Return(t) ==
    acked' = [acked EXCEPT ![local[t].arg.key] =
                 IF local[t].arg.op = "Insert"
                 THEN Some(Some(RecordOf(local[t].arg)))
                 ELSE Some(None)]

\* the mutation local[t].arg never returns: its outcome is not promised
Abandon(t) == acked' = [acked EXCEPT ![local[t].arg.key] = None]

\* flush_if_ready: flush_mutex.lock(), the threshold test, the new names
FlushLock(t) ==
    /\ status = "open" /\ pc[t] = "flush_lock"
    /\ flush_mutex = "none"
    /\ IF ~FlushReady(Cur, config)
       THEN /\ Goto(t, "idle", NoLocal)
            /\ Return(t)
            /\ UNCHANGED flush_mutex
       ELSE /\ StorageCount(files) < workload.max_files
            /\ Len(sstables) <= MaxTables
            /\ flush_mutex' = t
            /\ Goto(t, "flush_create_storage",
                    [local[t] EXCEPT
                        !.paths = [storage_path |-> NextStoragePath(files),
                                   index_path |-> NextIndexPath(files)],
                        !.before = GetAll(Cur, config)])
            /\ UNCHANGED acked
    /\ UNCHANGED <<tree, log, sstables, files, manifest, metadata,
                   config, status, workload, crashes, list_lock, tree_lock>>

\* SSTable::create under tree.read(): the refusals, then the storage file
FlushCreateStorage(t) ==
    /\ status = "open" /\ pc[t] = "flush_create_storage"
    /\ IF CreateRefuses(local[t].paths.storage_path, local[t].paths.index_path,
                        tree, files)
       THEN /\ ThreadPanic(t)
            /\ Set(Cur)
            /\ Abandon(t)
       ELSE /\ Set(CreateStorageFile(Cur, local[t].paths.storage_path))
            /\ tree_lock' = t
            /\ Goto(t, "flush_create_index", local[t])
            /\ UNCHANGED <<flush_mutex, list_lock, acked>>
    /\ UNCHANGED <<config, status, workload, crashes>>

\* SSTable::create: the index file, the descriptor; the read guard is dropped
FlushCreateIndex(t) ==
    /\ status = "open" /\ pc[t] = "flush_create_index"
    /\ Set(CreateIndexFile(Cur, local[t].paths.index_path, config))
    /\ tree_lock' = "none"
    /\ Goto(t, "flush_add_metadata",
            [local[t] EXCEPT
                !.table = CreateTable(local[t].paths.storage_path,
                                      local[t].paths.index_path, tree),
                !.snap = DOMAIN tree])
    /\ UNCHANGED <<config, status, workload, crashes, acked, flush_mutex, list_lock>>

\* add_sstable_to_metadata
FlushAddMetadata(t) ==
    /\ status = "open" /\ pc[t] = "flush_add_metadata"
    /\ Set(AddSSTableToMetadata(Cur, local[t].table))
    /\ Goto(t, "flush_clear_tree", local[t])
    /\ UNCHANGED <<config, status, workload, crashes, acked,
                   flush_mutex, list_lock, tree_lock>>

\* memtable.clear(): tree.clear()
FlushClearTree(t) ==
    /\ status = "open" /\ pc[t] = "flush_clear_tree"
    /\ tree_lock = "none"
    /\ Set(TreeClear(Cur))
    /\ Goto(t, "flush_clear_log", local[t])
    /\ UNCHANGED <<config, status, workload, crashes, acked,
                   flush_mutex, list_lock, tree_lock>>

\* memtable.clear(): log.clear()
FlushClearLog(t) ==
    /\ status = "open" /\ pc[t] = "flush_clear_log"
    /\ Set(LogClear(Cur))
    /\ Goto(t, "flush_push", local[t])
    /\ UNCHANGED <<config, status, workload, crashes, acked,
                   flush_mutex, list_lock, tree_lock>>

\* sstables.write().unwrap(), tables.push(table); the guards drop on return
FlushPush(t) ==
    /\ status = "open" /\ pc[t] = "flush_push"
    /\ list_lock \in {"none", "poisoned"}
    /\ IF list_lock = "poisoned"
       THEN /\ ThreadPanic(t)
            /\ Set(Cur)
            /\ Abandon(t)
       ELSE /\ Set(PushTable(Cur, local[t].table))
            /\ flush_mutex' = "none"
            /\ Goto(t, "idle", NoLocal)
            /\ Return(t)
            /\ UNCHANGED <<list_lock, tree_lock>>
    /\ UNCHANGED <<config, status, workload, crashes>>

\* the files of the tables a compaction reads
InputFiles(tables, fs) ==
    [i \in 1..Len(tables) |->
        [index_path |-> tables[i].index_path,
         storage_path |-> tables[i].storage_path,
         index |-> IF tables[i].index_path \in DOMAIN fs
                   THEN Some(fs[tables[i].index_path]) ELSE None,
         storage |-> IF tables[i].storage_path \in DOMAIN fs
                     THEN Some(fs[tables[i].storage_path]) ELSE None]]

\* Engine::compact: sstables.write().unwrap(), the tiers, `find`, the names
CallCompact(t) ==
    /\ status = "open" /\ pc[t] = "idle"
    /\ t \in workload.compacts
    /\ list_lock \in {"none", "poisoned"}
    /\ IF list_lock = "poisoned"
       THEN ThreadPanic(t)
       ELSE IF QualifyingTiers(sstables, config) = {}
       THEN UNCHANGED sync
       ELSE /\ StorageCount(files) < workload.max_files
            /\ list_lock' = t
            /\ \E tier \in QualifyingTiers(sstables, config) :
                  Goto(t, "compact_merge",
                       [local[t] EXCEPT
                           !.indices = TierIndices(sstables, tier, config),
                           !.paths = [storage_path |-> CompactStoragePath(files),
                                      index_path |-> CompactIndexPath(files)],
                           !.before = GetAll(Cur, config),
                           !.inputs = InputFiles(
                               TargetTables(sstables,
                                   TierIndices(sstables, tier, config)), files)])
            /\ UNCHANGED <<flush_mutex, tree_lock>>
    /\ UNCHANGED <<tree, log, sstables, files, manifest, metadata,
                   config, status, workload, crashes, acked>>

\* compaction::compact: the inputs are read and merged into two temporary
\* files, then index_file.persist(&new_index_path)
CompactMerge(t) ==
    /\ status = "open" /\ pc[t] = "compact_merge"
    /\ LET tables == TargetTables(sstables, local[t].indices)
       IN  IF CompactPanics(tables, files)
           THEN /\ ThreadPanic(t)
                /\ Set(Cur)
           ELSE LET out == Merge(tables, files).out
                    table == CompactTable(tables, files,
                                          local[t].paths.storage_path,
                                          local[t].paths.index_path)
                IN  /\ Set(PersistIndex(Cur, table, out, config))
                    /\ Goto(t, "compact_persist_storage",
                            [local[t] EXCEPT !.out = out, !.table = table])
                    /\ UNCHANGED <<flush_mutex, list_lock, tree_lock>>
    /\ UNCHANGED <<config, status, workload, crashes, acked>>

\* compaction::compact: storage_file.persist(&new_storage_path)
CompactPersistStorage(t) ==
    /\ status = "open" /\ pc[t] = "compact_persist_storage"
    /\ Set(PersistStorage(Cur, local[t].table, local[t].out))
    /\ Goto(t, "compact_swap", local[t])
    /\ UNCHANGED <<config, status, workload, crashes, acked,
                   flush_mutex, list_lock, tree_lock>>

\* Engine::compact: the list entries replaced, then create_metadata
CompactSwap(t) ==
    /\ status = "open" /\ pc[t] = "compact_swap"
    /\ Set(CreateMetadata(SwapTables(Cur, local[t].indices, local[t].table)))
    /\ Goto(t, "compact_return", local[t])
    /\ UNCHANGED <<config, status, workload, crashes, acked,
                   flush_mutex, list_lock, tree_lock>>

\* Engine::compact returns: the write guard `tables` is dropped
CompactReturn(t) ==
    /\ status = "open" /\ pc[t] = "compact_return"
    /\ list_lock' = "none"
    /\ Goto(t, "idle", NoLocal)
    /\ UNCHANGED <<tree, log, sstables, files, manifest, metadata,
                   config, status, workload, crashes, acked, flush_mutex, tree_lock>>

\* Engine::get: the memtable lookup
CallGet(t, key) ==
    /\ status = "open" /\ pc[t] = "idle"
    /\ LET memlookup == MemGet(tree, key)
           l == [local[t] EXCEPT !.arg = [op |-> "Get", key |-> key, val |-> 0]]
       IN  IF memlookup # None
           THEN Goto(t, "get_return", [l EXCEPT !.ret = Ok(memlookup[1])])
           ELSE Goto(t, "get_tables", l)
    /\ UNCHANGED <<tree, log, sstables, files, manifest, metadata, config,
                   status, workload, crashes, acked, flush_mutex, list_lock, tree_lock>>

\* Engine::get: sstables.read().unwrap() and the newest-first walk
GetTables(t) ==
    /\ status = "open" /\ pc[t] = "get_tables"
    /\ list_lock \in {"none", "poisoned"}
    /\ LET r == WalkTables(sstables, Len(sstables), local[t].arg.key,
                           files, config)
       IN  IF list_lock = "poisoned" \/ r.res # "Ok"
           THEN ThreadPanic(t)
           ELSE /\ Goto(t, "get_return", [local[t] EXCEPT !.ret = r])
                /\ UNCHANGED <<flush_mutex, list_lock, tree_lock>>
    /\ UNCHANGED <<tree, log, sstables, files, manifest, metadata,
                   config, status, workload, crashes, acked>>

\* Engine::get returns local[t].ret
GetReturn(t) ==
    /\ status = "open" /\ pc[t] = "get_return"
    /\ Goto(t, "idle", NoLocal)
    /\ UNCHANGED <<tree, log, sstables, files, manifest, metadata, config,
                   status, workload, crashes, acked, flush_mutex, list_lock, tree_lock>>

\* the steps of a mutation that has begun and not returned
MutationSteps ==
    {"insert_tree", "delete_log", "flush_lock", "flush_create_storage",
     "flush_create_index", "flush_add_metadata", "flush_clear_tree",
     "flush_clear_log", "flush_push"}

\* the process stops where it is: power loss, kill, or the exit that follows
\* a panic of the main thread
Crash ==
    /\ status = "open"
    /\ crashes < MaxCrashes
    /\ crashes' = crashes + 1
    /\ Down(Cur)
    /\ acked' = [k \in Keys |->
                    IF \E t \in Threads : /\ pc[t] \in MutationSteps \cup {"panicked"}
                                          /\ local[t].arg # <<>>
                                          /\ local[t].arg.key = k
                    THEN None ELSE acked[k]]
    /\ UNCHANGED <<config, workload, sync>>

InsertStep(t) ==
    \/ \E record \in workload.records[t] : CallInsert(t, record)
    \/ InsertTree(t)

DeleteStep(t) ==
    \/ \E key \in workload.deletes[t] : CallDelete(t, key)
    \/ DeleteLog(t)

FlushStep(t) ==
    \/ FlushLock(t)
    \/ FlushCreateStorage(t)
    \/ FlushCreateIndex(t)
    \/ FlushAddMetadata(t)
    \/ FlushClearTree(t)
    \/ FlushClearLog(t)
    \/ FlushPush(t)

CompactStep(t) ==
    \/ CallCompact(t)
    \/ CompactMerge(t)
    \/ CompactPersistStorage(t)
    \/ CompactSwap(t)
    \/ CompactReturn(t)

GetStep(t) ==
    \/ \E key \in workload.gets[t] : CallGet(t, key)
    \/ GetTables(t)
    \/ GetReturn(t)

\* Engine::new after the process stopped
Recover == status = "down" /\ Reopen

Init == InitWith(ConfigFlush2, MainLoad)

Next ==
    \/ \E record \in workload.records["t1"] : Insert(record)
    \/ \E key \in workload.deletes["t1"] : Delete(key)
    \/ Compact
    \/ Reopen

Spec == Init /\ [][Next]_vars

\* one client thread, step by step, on an engine whose memtable is flushed
\* at three entries
InitFlush3 == InitWith(ConfigFlush3, SmallLoad)

NextFlush3 ==
    \/ InsertStep("t1")
    \/ DeleteStep("t1")
    \/ FlushStep("t1")
    \/ CompactStep("t1")
    \/ Reopen

SpecFlush3 == InitFlush3 /\ [][NextFlush3]_vars

\* one client thread, and a process that may stop after any step
InitCrash == InitWith(ConfigFlush2, CrashLoad)

NextCrash ==
    \/ InsertStep("t1")
    \/ FlushStep("t1")
    \/ CompactStep("t1")
    \/ Crash
    \/ Recover

SpecCrash == InitCrash /\ [][NextCrash]_vars

\* two client threads on one engine
InitConc == InitWith(ConfigFlush2, ConcLoad)

NextConc ==
    \/ \E t \in Threads : InsertStep(t)
    \/ \E t \in Threads : FlushStep(t)
    \/ \E t \in Threads : CompactStep(t)
    \/ \E t \in Threads : GetStep(t)

SpecConc == InitConc /\ [][NextConc]_vars

\* a single caller whose flushes write SSTables smaller than
\* compaction_tier_size (two tombstones) and larger ones
TierLoad ==
    Load(RecordsOf({<<1>>, <<3>>}), {<<1>>, <<2>>}, {}, {}, {}, {"t1"}, MaxFiles)

InitTier == InitWith(ConfigFlush2, TierLoad)

SpecTier == InitTier /\ [][Next]_vars

\* a single caller that uses keys longer than index_key_string_size and a
\* key with a space in it
KeyLoad == Load(LongRecords, {<<2>>}, {}, {}, {}, {"t1"}, MaxFiles)

InitKeys == InitWith(ConfigFlush2, KeyLoad)

SpecKeys == InitKeys /\ [][Next]_vars

\* the memtable alone: inserts and deletes whose log append may fail, and
\* the memtable dropped and rebuilt from its log
MemLoad ==
    Load(RecordsOf({<<1>>, <<2>>}), {<<1>>, <<2>>}, {}, {}, {}, {}, MaxFiles)

InitMem == InitWith(ConfigFlush2, MemLoad)

NextMem ==
    \/ \E record \in workload.records["t1"] : MemTableInsert("t1", record)
    \/ \E key \in workload.deletes["t1"] : MemTableDelete("t1", key)
    \/ Reopen

SpecMem == InitMem /\ [][NextMem]_vars

\* a single caller's inserts and deletes, and reopens, on an engine whose
\* index_offset_size is not the width of the offsets written
InitOffset == InitWith(ConfigOffset2, MainLoad)

NextOffset ==
    \/ \E record \in workload.records["t1"] : Insert(record)
    \/ \E key \in workload.deletes["t1"] : Delete(key)
    \/ Reopen

SpecOffset == InitOffset /\ [][NextOffset]_vars

\* a single caller's inserts and deletes on an engine whose log appends may
\* fail
InitAppend == InitWith(ConfigFlush2, MemLoad)

NextAppend ==
    \/ \E record \in workload.records["t1"] : Insert(record)
    \/ \E key \in workload.deletes["t1"] : Delete(key)
    \/ \E record \in workload.records["t1"] : InsertFails(record)
    \/ \E key \in workload.deletes["t1"] : DeleteFails(key)

SpecAppend == InitAppend /\ [][NextAppend]_vars

\* SSTable::create called directly, on trees that are empty or not and on
\* paths that exist or not
CreateLoad == Load(RecordsOf({<<1>>}), {<<2>>}, {}, {}, {}, {}, MaxFiles)

InitCreate == InitWith(ConfigFlush2, CreateLoad)

NextCreate ==
    \/ \E record \in workload.records["t1"] : MemTableInsert("t1", record)
    \/ \E key \in workload.deletes["t1"] : MemTableDelete("t1", key)
    \/ \E s, i \in CreateNames :
          SSTableCreate("t1", <<"storage", s>>, <<"indices", i>>)

SpecCreate == InitCreate /\ [][NextCreate]_vars

\* two client threads that both mutate and both call compact, and the gets
\* of the second
MutexLoad ==
    Load(RecordsOf({<<1>>}), {<<2>>}, {}, RecordsOf({<<3>>}), {<<1>>},
         Threads, MaxFilesConc)

InitMutex == InitWith(ConfigFlush2, MutexLoad)

NextMutex ==
    \/ \E t \in Threads : InsertStep(t)
    \/ \E t \in Threads : DeleteStep(t)
    \/ \E t \in Threads : FlushStep(t)
    \/ \E t \in Threads : CompactStep(t)

SpecMutex == InitMutex /\ [][NextMutex]_vars

\* two client threads that insert, delete, get and compact on an engine
\* that flushes at every mutation, each thread scheduled again and again
\* while it is in a call
InitLive == InitWith(ConfigFlush1, MutexLoad)

\* a step of thread t inside a call it has begun, the merge of a compaction
\* apart
Running(t) ==
    /\ pc[t] # "idle"
    /\ \/ InsertStep(t)
       \/ DeleteStep(t)
       \/ FlushStep(t)
       \/ GetStep(t)
       \/ CompactPersistStorage(t)
       \/ CompactSwap(t)
       \/ CompactReturn(t)

NextLive ==
    \/ \E t \in Threads : InsertStep(t)
    \/ \E t \in Threads : DeleteStep(t)
    \/ \E t \in Threads : FlushStep(t)
    \/ \E t \in Threads : CompactStep(t)
    \/ \E t \in Threads : GetStep(t)

\* every thread that can take its next step takes it in the end; the merge
\* of a compaction waits for no lock, it only reads and writes files, so a
\* thread does not stay in it forever
SpecLive ==
    /\ InitLive
    /\ [][NextLive]_vars
    /\ \A t \in Threads :
          WF_vars(Running(t)) /\ []<>(pc[t] # "compact_merge")

\* a single caller on an engine whose compaction_threshold is 0
InitThreshold0 == InitWith(ConfigThreshold0, SmallLoad)

SpecThreshold0 == InitThreshold0 /\ [][Next]_vars

(***************************************************************************)
(* Properties.                                                             *)
(***************************************************************************)
\* the engine state a step leads to
CurNext ==
    [tree |-> tree', log |-> log', sstables |-> sstables', files |-> files',
     manifest |-> manifest', metadata |-> metadata']

\* the keys whose last mutation returned Ok, and what a get must then return
AckedKeys == {k \in Keys : acked[k] # None}
Expected(k) == Ok(acked[k][1])

\* C1 (Insert-Get): while an engine is open, a key whose last returned
\* mutation is insert(r) reads as Some(r), whatever flushes and compactions
\* happened since.
C1_InsertGet ==
    status = "open" =>
        \A k \in AckedKeys :
            acked[k][1] # None => EngineGet(Cur, k, config) = Expected(k)

\* C1: an open engine in which a get returns a value, yet not the acknowledged
\* insert: an older version of the key has come to lie above the newer one
C1_StaleRead ==
    /\ status = "open"
    /\ \E k \in AckedKeys :
          /\ acked[k][1] # None
          /\ EngineGet(Cur, k, config).res = "Ok"
          /\ EngineGet(Cur, k, config).val \notin {None, acked[k][1]}

\* C2 (Delete): while an engine is open, a key whose last returned mutation
\* is delete(k) reads as None: no older SSTable resurrects it.
C2_DeleteGet ==
    status = "open" =>
        \A k \in AckedKeys :
            acked[k][1] = None => EngineGet(Cur, k, config) = Ok(None)

\* C2: an open engine in which a get returns a record for a key whose
\* acknowledged last mutation is a delete
C2_Resurrected ==
    /\ status = "open"
    /\ \E k \in AckedKeys :
          /\ acked[k][1] = None
          /\ EngineGet(Cur, k, config).res = "Ok"
          /\ EngineGet(Cur, k, config).val # None

\* C3 (Persistence): from every state in which no call is running, dropping
\* the engine and reopening it gives, for every key mentioned, the get result
\* that the last returned mutation of that key dictates.
C3_Persistence ==
    (status = "open" /\ \A t \in Threads : pc[t] = "idle") =>
        /\ ~OpenPanics(Cur)
        /\ \A k \in AckedKeys : EngineGet(Open(Cur), k, config) = Expected(k)

\* C3: an open engine that answers every acknowledged key as dictated, and
\* would answer one of them otherwise after a drop and a reopen
C3_LostByReopen ==
    /\ status = "open"
    /\ \A t \in Threads : pc[t] = "idle"
    /\ \A k \in AckedKeys : EngineGet(Cur, k, config) = Expected(k)
    /\ \E k \in AckedKeys :
          /\ EngineGet(Open(Cur), k, config).res = "Ok"
          /\ EngineGet(Open(Cur), k, config) # Expected(k)

\* a step of Spec in which compact() merged a tier: a file appears, the
\* write-ahead log is untouched
CompactionStep == status = "open" /\ status' = "open" /\ files' # files /\ log' = log

\* C4 (Compaction idempotence for reads): a compact() call that merges a
\* tier, adjacent in age or not, leaves the result of get(k) what it was,
\* for every key k.
C4_CompactionIdempotence ==
    [][CompactionStep => GetAll(CurNext, config) = GetAll(Cur, config)]_vars

\* C4: an open engine in which compact() may select tables that are not
\* adjacent in age and, merging them, turns the value a get returns for some
\* key into another value
C4_ReorderingCompaction ==
    /\ status = "open"
    /\ \E tier \in QualifyingTiers(sstables, config) :
          \E k \in Keys :
             LET indices == TierIndices(sstables, tier, config)
                 after == EngineGet(CompactTier(Cur, tier, config), k, config)
             IN  /\ indices[Len(indices)] - indices[1] >= Len(indices)
                 /\ ~CompactPanics(TargetTables(sstables, indices), files)
                 /\ EngineGet(Cur, k, config).res = "Ok"
                 /\ after.res = "Ok"
                 /\ after # EngineGet(Cur, k, config)

\* C5 (Flush idempotence for reads): when flush_if_ready has flushed the
\* memtable, every get returns what it returned when the flush began.
C5_FlushIdempotence ==
    [][\A t \in Threads :
          (pc[t] = "flush_push" /\ pc'[t] = "idle") =>
              GetAll(CurNext, config) = local[t].before]_vars

\* C5: a flush has just completed and a key it wrote to the new SSTable,
\* readable from the memtable when the flush began, can no longer be read
C5_FlushedKeyUnreadable ==
    /\ status = "open"
    /\ tree = EmptyTree
    /\ sstables # <<>>
    /\ \E k \in Keys :
          /\ ~KeyLess(k, sstables[Len(sstables)].min)
          /\ ~KeyLess(sstables[Len(sstables)].max, k)
          /\ sstables[Len(sstables)].storage_path[1] = "storage"
          /\ EngineGet(Cur, k, config).res = "Panic"

\* the steps at which a thread is inside a flush, and inside a compaction
FlushSteps ==
    {"flush_create_storage", "flush_create_index", "flush_add_metadata",
     "flush_clear_tree", "flush_clear_log", "flush_push"}

CompactSteps ==
    {"compact_merge", "compact_persist_storage", "compact_swap", "compact_return"}

\* a step in which Engine::new runs after the process stopped
Recovery == status = "down" /\ status' = "open"

\* C6 (Crash during flush): when the process stopped at a step of
\* flush_if_ready and the engine is reopened, every get returns what it
\* returned when that flush began.
C6_CrashDuringFlush ==
    [][\A t \in Threads :
          (Recovery /\ pc[t] \in FlushSteps) =>
              GetAll(CurNext, config) = local[t].before]_vars

\* every input file of a compaction is on disk with the content it had
InputsIntact(inputs, fs) ==
    \A i \in 1..Len(inputs) :
        /\ inputs[i].index_path \in DOMAIN fs
        /\ inputs[i].storage_path \in DOMAIN fs
        /\ inputs[i].index = Some(fs[inputs[i].index_path])
        /\ inputs[i].storage = Some(fs[inputs[i].storage_path])

\* every manifest line is well formed and describes files that exist and
\* hold as many entries as the line says
ManifestConsistent(lines, fs) ==
    \A i \in 1..Len(lines) :
        /\ ~LineCorrupt(lines[i])
        /\ ParseLine(lines[i]).index_path \in DOMAIN fs
        /\ ParseLine(lines[i]).storage_path \in DOMAIN fs
        /\ Len(fs[ParseLine(lines[i]).index_path].index) = ParseLine(lines[i]).count
        /\ Len(fs[ParseLine(lines[i]).storage_path].storage) = ParseLine(lines[i]).count

\* C7 (Crash during compaction): when the process stopped at a step of
\* compact and the engine is reopened, the input files are intact, the
\* manifest lists a consistent set of SSTables, and every get returns what it
\* returned when the compaction began.
C7_CrashDuringCompaction ==
    [][\A t \in Threads :
          (Recovery /\ pc[t] \in CompactSteps) =>
              /\ InputsIntact(local[t].inputs, files')
              /\ ManifestConsistent(manifest', files')
              /\ GetAll(CurNext, config) = local[t].before]_vars

\* C8 (no committed key absent during a flush): while a thread is in a flush
\* that has built its SSTable, every key of the flushed memtable is in the
\* memtable or the new SSTable is in the in-memory list.
C8_VisibleDuringFlush ==
    \A t \in Threads :
        pc[t] \in {"flush_add_metadata", "flush_clear_tree",
                   "flush_clear_log", "flush_push"} =>
            \A k \in local[t].snap :
                \/ MemGet(tree, k) # None
                \/ \E i \in 1..Len(sstables) : sstables[i] = local[t].table

\* what the get of the key of operation op must return once op has returned
Reflects(e, op) ==
    EngineGet(e, op.key, config) =
        Ok(IF op.op = "Insert" THEN Some(RecordOf(op)) ELSE None)

\* C9 (a mutation during a flush is not lost): when an insert or delete that
\* was applied while another thread was between SSTable::create and
\* memtable.clear returns, a get that begins then reflects it, and so does a
\* get after a reopen.
C9_MutationDuringFlushKept ==
    [][\A t \in Threads :
          (pc[t] \in {"flush_lock", "flush_push"} /\ pc'[t] = "idle"
              /\ local[t].raced) =>
              /\ Reflects(CurNext, local[t].arg)
              /\ Reflects(Open(CurNext), local[t].arg)]_vars

\* C10 (a get does not wait for compaction I/O): while a thread is reading
\* the inputs of a compaction or writing its output, a get that has reached
\* the SSTable list can take its shared lock.
C10_GetNotBlockedByMerge ==
    \A t \in Threads, u \in Threads :
        (pc[t] \in {"compact_merge", "compact_persist_storage"}
            /\ pc[u] = "get_tables") => list_lock # t

\* a log file in which every append wrote its whole record
WholeLog(l) == \A i \in 1..Len(l) : l[i].op # "Torn"

\* C11 (a failed log append leaves the map alone): when MemTable::insert or
\* MemTable::delete returns the error of the log append, the ordered map is
\* what it was before the call.
C11_AppendFailureKeepsMap ==
    [][\A t \in Threads :
          (local'[t].arg # <<>> /\ local'[t].ret = Err) => tree' = tree]_vars

\* C11: a delete returned the append's error, the log holds no delete of the
\* key, and the map holds the key's tombstone
C11_TombstoneOfFailedDelete ==
    \E t \in Threads :
        /\ local[t].arg # <<>>
        /\ local[t].arg.op = "Delete"
        /\ local[t].ret = Err
        /\ WholeLog(log)
        /\ \A i \in 1..Len(log) : log[i] # local[t].arg
        /\ MemGet(tree, local[t].arg.key) = Some(None)

\* C12 (replay tells a torn tail from a clean end): a log whose last record
\* is cut off mid-record, after whole records, fails to replay and no
\* memtable is opened; a log that ends on a record boundary replays every
\* record.
C12_ReplayTornTail ==
    /\ (/\ log # <<>>
        /\ log[Len(log)].op = "Torn"
        /\ WholeLog(SubSeq(log, 1, Len(log) - 1)))
           => BuildFrom(log).res = "Err"
    /\ WholeLog(log)
           => BuildFrom(log) = [res |-> "Ok", tree |-> Replay(log, EmptyTree)]

\* C12: a memtable opened from a log with whole records and a torn tail: the
\* replay ended cleanly at the torn record
C12_TornTailSkipped ==
    /\ status = "open"
    /\ \A t \in Threads : local[t].arg = <<>>
    /\ Len(log) > 1
    /\ log[Len(log)].op = "Torn"
    /\ WholeLog(SubSeq(log, 1, Len(log) - 1))
    /\ tree = Replay(SubSeq(log, 1, Len(log) - 1), EmptyTree)

\* the keys whose last record in a whole log is an insert
LoggedLive(l) ==
    {k \in Keys : \E i \in 1..Len(l) :
        /\ l[i].op = "Insert" /\ l[i].key = k
        /\ \A j \in (i + 1)..Len(l) : l[j].key # k}

\* C17 (the memtable tests): a delete of a key that was inserted takes the
\* key out of len() and get(key) then reports no entry; a memtable rebuilt
\* from its log counts the keys whose last record is an insert, finds them
\* and finds none of the deleted keys.
C17_DeleteRemovesEntry ==
    [][/\ \A t \in Threads :
             (/\ local'[t].arg # <<>>
              /\ local'[t].arg.op = "Delete"
              /\ local'[t].ret = Ok(None)
              /\ MemGet(tree, local'[t].arg.key) \notin {None, Some(None)})
                 => /\ MemLen(tree') = MemLen(tree) - 1
                    /\ MemGet(tree', local'[t].arg.key) = None
       /\ (/\ status' = "open"
           /\ \A t \in Threads : local'[t].arg = <<>>
           /\ WholeLog(log))
              => /\ MemLen(tree') = Cardinality(LoggedLive(log))
                 /\ \A k \in Keys :
                       (MemGet(tree', k) # None) <=> (k \in LoggedLive(log))]_vars

\* C17: a delete of an inserted key returned Ok and the map still counts the
\* key: it holds the key's tombstone
C17_TombstoneCounted ==
    \E t \in Threads :
        /\ local[t].arg # <<>>
        /\ local[t].arg.op = "Delete"
        /\ local[t].ret = Ok(None)
        /\ \E i \in 1..Len(log) :
              log[i].op = "Insert" /\ log[i].key = local[t].arg.key
        /\ MemGet(tree, local[t].arg.key) = Some(None)
        /\ MemLen(tree) >= 1

\* what an SSTable's files hold for a key: the positions of the key in the
\* index file, and the payload written at that position of the storage file
PositionsOf(table, key, fs) ==
    {j \in 1..Len(fs[table.index_path].index) :
        IndexKeyAt(fs[table.index_path].index, j - 1) = key}

PayloadOf(table, key, fs) ==
    fs[table.storage_path].storage[CHOOSE j \in PositionsOf(table, key, fs) : TRUE]

\* the list positions of the tables that hold the key
Holding(tables, key, fs) ==
    {i \in 1..Len(tables) : PositionsOf(tables[i], key, fs) # {}}

Newest(S) == CHOOSE i \in S : \A j \in S : j <= i

\* C13 (resolution by recency, three-valued): get(k) is the memtable's entry
\* for k if there is one (None for a tombstone), else the entry of the newest
\* SSTable that holds k (None for a tombstone, the record for a live value),
\* whatever older SSTables hold, else None.
C13_ResolvedByRecency ==
    status = "open" =>
        \A k \in Keys :
            EngineGet(Cur, k, config) =
                Ok(IF k \in DOMAIN tree THEN tree[k]
                   ELSE IF Holding(sstables, k, files) = {} THEN None
                   ELSE PayloadOf(sstables[Newest(Holding(sstables, k, files))],
                                  k, files))

\* C13: a key that is not in the memtable, whose newest SSTable entry is a
\* tombstone and for which an older SSTable holds a record: get returns None
C13_TombstoneStopsTheWalk ==
    /\ status = "open"
    /\ \E k \in Keys :
          /\ k \notin DOMAIN tree
          /\ Cardinality(Holding(sstables, k, files)) > 1
          /\ PayloadOf(sstables[Newest(Holding(sstables, k, files))], k, files)
                = None
          /\ \E i \in Holding(sstables, k, files) :
                PayloadOf(sstables[i], k, files) # None
          /\ EngineGet(Cur, k, config) = Ok(None)

\* the tier of the compaction policy, floor(log_B(size / T)): negative for a
\* table smaller than T
LogTier(size, cfg) ==
    LET T == cfg.compaction_tier_size
        B == cfg.compaction_size_multiplier
    IN  IF size >= T THEN TierOf(size, cfg)
        ELSE -(CHOOSE n \in 1..T :
                  size * Pow(B, n) >= T /\ size * Pow(B, n - 1) < T)

\* no tier holds more than compaction_threshold tables
NoTierQualifies(tables, cfg) ==
    \A i \in 1..Len(tables) :
        Cardinality({j \in 1..Len(tables) :
            LogTier(tables[j].size, cfg) = LogTier(tables[i].size, cfg)})
          <= cfg.compaction_threshold

\* C14 (compact is a no-op when no tier qualifies): when no tier holds more
\* than compaction_threshold SSTables, compact() returns and leaves the list,
\* the manifest and every file as they were, and creates no file.
C14_CompactNoOp ==
    (status = "open" /\ NoTierQualifies(sstables, config)) =>
        EngineCompact(Cur, config) = {[res |-> "Ok", e |-> Cur]}

\* C14: an open engine with two SSTables in two tiers of the policy, one of
\* them smaller than compaction_tier_size, that compact() would merge
C14_MergesAcrossTiers ==
    /\ status = "open"
    /\ Len(sstables) = 2
    /\ NoTierQualifies(sstables, config)
    /\ \E i \in 1..2 : sstables[i].size < config.compaction_tier_size
    /\ \E o \in EngineCompact(Cur, config) : o.res = "Ok" /\ Len(o.e.sstables) = 1

\* C15 (a corrupt manifest is an error value): on a manifest with a line
\* that does not have 6 fields, Engine::new returns an error to its caller;
\* it neither aborts nor yields an engine.
C15_ManifestCorruptIsError ==
    (\E i \in 1..Len(manifest) : LineCorrupt(manifest[i])) =>
        NewResult(Cur) = "Err"

\* C15: the process is gone after Engine::new met a manifest line with more
\* than 6 fields
C15_OpenAborted ==
    /\ status = "down"
    /\ \E i \in 1..Len(manifest) : Len(manifest[i]) > 6

\* C16 (Insert-Get for long keys): a key longer than index_key_string_size
\* whose last returned mutation is insert(r) reads as Some(r), also after
\* the record was flushed or compacted, and also when another key shares
\* its first index_key_string_size bytes.
C16_LongKeyInsertGet ==
    status = "open" =>
        \A k \in AckedKeys :
            (Len(k) > config.index_key_string_size /\ acked[k][1] # None)
                => EngineGet(Cur, k, config) = Expected(k)

\* C16: a long key whose record lies in an SSTable, and get returns None
C16_LongKeyNotFound ==
    /\ status = "open"
    /\ \E k \in AckedKeys :
          /\ Len(k) > config.index_key_string_size
          /\ acked[k][1] # None
          /\ \E i \in 1..Len(sstables) :
                \E j \in 1..Len(files[sstables[i].storage_path].storage) :
                    files[sstables[i].storage_path].storage[j] = acked[k][1]
          /\ EngineGet(Cur, k, config) = Ok(None)

\* the manifest lines that describe a list of SSTables, oldest first
LinesOf(tables) == [i \in 1..Len(tables) |-> FormatLine(tables[i])]

\* C18 (manifest/list agreement): while an engine is open and no flush or
\* compaction is in progress, the manifest file lists exactly the
\* descriptors of the in-memory SSTable list, in its order.
C18_ManifestAgreesWithList ==
    (status = "open" /\ \A t \in Threads : pc[t] = "idle") =>
        manifest = LinesOf(sstables)

\* C18: a flush has pushed a table to the list after a compaction renamed a
\* new manifest into place, and the manifest lacks the table's line
C18_FlushLineLost ==
    /\ status = "open"
    /\ \A t \in Threads : pc[t] = "idle"
    /\ metadata = "unlinked"
    /\ Len(sstables) = Len(manifest) + 1
    /\ manifest = LinesOf(SubSeq(sstables, 1, Len(manifest)))

\* C19 (manifest before truncation): in every flush, when the write-ahead
\* log is truncated the manifest file already holds the line of the SSTable
\* that the flush wrote.
C19_ListedBeforeTruncation ==
    [][\A t \in Threads :
          (pc[t] = "flush_clear_log" /\ pc'[t] = "flush_push") =>
              \E i \in 1..Len(manifest') :
                  manifest'[i] = FormatLine(local[t].table)]_vars

\* C19: a flush has truncated the log and the manifest file does not list
\* the SSTable it wrote
C19_TruncatedUnlisted ==
    \E t \in Threads :
        /\ status = "open"
        /\ pc[t] = "flush_push"
        /\ log = <<>>
        /\ \A i \in 1..Len(manifest) : manifest[i] # FormatLine(local[t].table)

\* C20 (SSTable::get is a correct three-valued lookup): on the table that
\* SSTable::create built from a tree, SSTable::get returns, for every key,
\* Some(Some(r)) for a live r of the tree, Some(None) for a tombstone of the
\* tree and None for a key the tree does not hold, whatever the number of
\* entries.
C20_TableLookup ==
    [][\A t \in Threads :
          (pc[t] = "flush_create_index" /\ pc'[t] = "flush_add_metadata") =>
              \A k \in Keys :
                  SSTableGet(local'[t].table, k, files', config)
                      = Ok(MemGet(tree, k))]_vars

\* C20: a table of 3 entries has been built, with K + O = 2, and
\* SSTable::get returns an error for a key of the tree it was built from
C20_OddCountRefused ==
    \E t \in Threads :
        /\ pc[t] = "flush_add_metadata"
        /\ local[t].table.count = 3
        /\ PairSize(config) = 2
        /\ \E k \in DOMAIN tree :
              SSTableGet(local[t].table, k, files, config) = Err

\* what a compaction's input held when the compaction began (an element of
\* local[t].inputs): its keys, and the payload stored for a key
InputKeys(input) ==
    {IndexKeyAt(input.index[1].index, j - 1) :
        j \in 1..Len(input.index[1].index)}

InputValue(input, key) ==
    input.storage[1].storage[
        CHOOSE j \in 1..Len(input.index[1].index) :
            IndexKeyAt(input.index[1].index, j - 1) = key]

\* the inputs (oldest first) that held the key
InputsHolding(inputs, key) ==
    {i \in 1..Len(inputs) : key \in InputKeys(inputs[i])}

C22_TombstoneDropRule ==
    \A t \in Threads :
        pc[t] = "compact_return" =>
            \A i \in 1..Len(local[t].inputs) :
                \A key \in InputKeys(local[t].inputs[i]) :
                    LET newest ==
                            Newest(InputsHolding(local[t].inputs, key))
                    IN  InputValue(local[t].inputs[newest], key) = None =>
                            (PositionsOf(local[t].table, key, files) = {}
                                <=> local[t].indices[1] = 1)

\* C22: a compaction whose inputs include the oldest SSTable has written an
\* output that holds a tombstone
C22_TombstoneEmitted ==
    \E t \in Threads :
        /\ pc[t] = "compact_return"
        /\ local[t].indices[1] = 1
        /\ \E key \in Keys :
              /\ PositionsOf(local[t].table, key, files) # {}
              /\ PayloadOf(local[t].table, key, files) = None

\* C23 (compaction list replacement): a compact() call that merges a group G
\* leaves the old list with the members of G removed and a single new table
\* at the place of the newest member of G; the other tables keep their
\* descriptors and their order, and the list is |G| - 1 shorter.
C23_ListReplacement ==
    [][CompactionStep =>
          \E tier \in QualifyingTiers(sstables, config) :
              LET indices == TierIndices(sstables, tier, config)
                  G == {indices[j] : j \in 1..Len(indices)}
                  kept == SelectSeq([i \in 1..Len(sstables) |-> i],
                                    LAMBDA i : i \notin G \/ i = Newest(G))
              IN  /\ Len(sstables') = Len(sstables) - (Cardinality(G) - 1)
                  /\ Len(sstables') = Len(kept)
                  /\ \A j \in 1..Len(kept) :
                        IF kept[j] = Newest(G)
                        THEN sstables'[j].storage_path \notin DOMAIN files
                        ELSE sstables'[j] = sstables[kept[j]]]_vars

\* C23: a list in which the output of a compaction stands after an SSTable
\* that a flush wrote, which was therefore in the list, outside the group,
\* when the group was merged
C23_OutputAfterKeptTable ==
    /\ status = "open"
    /\ \E i \in 2..Len(sstables) :
          /\ sstables[i].storage_path[1] = "indices"
          /\ sstables[i - 1].storage_path[1] = "storage"

\* the list positions that compact files under one key of its tier map
SameTier(tables, cfg, i, j) ==
    \E tier \in {TierOf(tables[n].size, cfg) : n \in 1..Len(tables)} :
        LET indices == TierIndices(tables, tier, cfg)
        IN  /\ \E n \in 1..Len(indices) : indices[n] = i
            /\ \E n \in 1..Len(indices) : indices[n] = j

\* C24 (tier grouping): compact files two SSTables of the list under the same
\* tier if and only if floor(log_B(size / T)) is the same for both; a table
\* smaller than T is never grouped with a table of tier 0.
C24_TierGrouping ==
    status = "open" =>
        \A i, j \in 1..Len(sstables) :
            SameTier(sstables, config, i, j)
                <=> LogTier(sstables[i].size, config)
                       = LogTier(sstables[j].size, config)

\* C24: compact files a table smaller than compaction_tier_size and a table
\* of tier 0 under the same tier
C24_NegativeTierWithTierZero ==
    /\ status = "open"
    /\ \E i, j \in 1..Len(sstables) :
          /\ sstables[i].size < config.compaction_tier_size
          /\ LogTier(sstables[j].size, config) = 0
          /\ SameTier(sstables, config, i, j)

\* what the last record of a whole log says of a key, as MemTable::get
\* reports it: no entry, a tombstone, a live record
LastLogged(l, key) ==
    LET at == {i \in 1..Len(l) : l[i].key = key}
    IN  IF at = {} THEN None
        ELSE IF l[Newest(at)].op = "Insert"
        THEN Some(Some([key |-> key, val |-> l[Newest(at)].val]))
        ELSE Some(None)

\* a step in which the memtable is rebuilt from its log
Rebuild ==
    /\ status' = "open"
    /\ log' = log
    /\ \A t \in Threads : local'[t] = NoLocal

IndexKeys(table, fs) ==
    {IndexKeyAt(fs[table.index_path].index, j - 1) :
        j \in 1..Len(fs[table.index_path].index)}

\* the descriptor fields agree with the files: count, size, min and max
DescriptorAgrees(table, fs) ==
    /\ table.count = Len(fs[table.index_path].index)
    /\ table.count = Len(fs[table.storage_path].storage)
    /\ table.size = TotalLen(fs[table.storage_path].storage)
    /\ table.min \in IndexKeys(table, fs)
    /\ table.max \in IndexKeys(table, fs)
    /\ \A k \in IndexKeys(table, fs) :
          ~KeyLess(k, table.min) /\ ~KeyLess(table.max, k)

\* C27 (index stride and descriptor): for every SSTable of the list, the
\* index file is exactly count * (K + O) bytes long, count is the number of
\* entries, size the length of the storage file, min and max the smallest
\* and the largest key of the table.
C27_StrideAndDescriptor ==
    status = "open" =>
        \A i \in 1..Len(sstables) :
            /\ IndexFileLen(files[sstables[i].index_path].index, config)
                  = sstables[i].count * PairSize(config)
            /\ DescriptorAgrees(sstables[i], files)

\* C27: a flushed SSTable whose descriptor agrees with its files and whose
\* index file is shorter than count * (K + O)
C27_IndexShorterThanStride ==
    /\ status = "open"
    /\ \E i \in 1..Len(sstables) :
          /\ DescriptorAgrees(sstables[i], files)
          /\ IndexFileLen(files[sstables[i].index_path].index, config)
                < sstables[i].count * PairSize(config)

C29_FlushTrigger ==
    [][status' = "open" =>
          /\ PairSize(config) * MemLen(tree')
                < config.initial_index_file_threshold
          /\ IF files' # files
             THEN /\ tree' = EmptyTree
                  /\ log' = <<>>
                  /\ Len(sstables') = Len(sstables) + 1
                  /\ SubSeq(sstables', 1, Len(sstables)) = sstables
             ELSE sstables' = sstables]_vars

\* C29: no flush is running and the memtable has reached the threshold: the
\* delete that put its tombstone in the tree returned the error of the log
\* append
C29_AtThresholdUnflushed ==
    /\ status = "open"
    /\ FlushReady(Cur, config)
    /\ \E key \in DOMAIN tree :
          /\ tree[key] = None
          /\ \A i \in 1..Len(log) : log[i].op = "Torn" \/ log[i].key # key

\* the threads that are in a flush or a compaction that has chosen its file
\* names, and the two paths a thread has chosen
Writing(t) == pc[t] \in FlushSteps \cup CompactSteps

PathsOf(t) == {local[t].paths.storage_path, local[t].paths.index_path}

\* C30 (file-name uniqueness): a flush or a compaction chooses paths at which
\* no file exists, no two running operations have a path in common, and no
\* step changes a file of an SSTable that is in the list.
C30_UniqueFileNames ==
    [][/\ \A t \in Threads :
             (pc[t] \notin FlushSteps \cup CompactSteps
                 /\ pc'[t] \in FlushSteps \cup CompactSteps)
                => {local'[t].paths.storage_path, local'[t].paths.index_path}
                       \cap DOMAIN files = {}
       /\ \A t, u \in Threads :
             (t # u /\ Writing(t) /\ Writing(u))
                => PathsOf(t) \cap PathsOf(u) = {}
       /\ \A i \in 1..Len(sstables) :
             \A p \in {sstables[i].storage_path, sstables[i].index_path} :
                p \in DOMAIN files => files'[p] = files[p]]_vars

\* C30: a flush and a compaction that run at the same time have chosen the
\* same two paths
C30_SameNamesChosen ==
    \E t, u \in Threads :
        /\ pc[t] \in FlushSteps
        /\ pc[u] \in CompactSteps
        /\ PathsOf(t) = PathsOf(u)

\* C30: an SSTable is in the list and one of its files holds what a
\* compaction wrote there under the same name
C30_ListedFileOverwritten ==
    /\ status = "open"
    /\ \E i \in 1..Len(sstables) :
          /\ sstables[i].storage_path[1] = "storage"
          /\ sstables[i].index_path \in DOMAIN files
          /\ files[sstables[i].index_path].index = <<>>
          /\ files[sstables[i].index_path].storage # <<>>

\* C31 (directory layout): for every SSTable of the list, flushed or
\* compacted, storage_path names a file under storage/ that holds the
\* payloads and index_path names a file under indices/ that holds the index.
C31_DirectoryLayout ==
    status = "open" =>
        \A i \in 1..Len(sstables) :
            /\ sstables[i].storage_path[1] = "storage"
            /\ sstables[i].index_path[1] = "indices"
            /\ sstables[i].storage_path \in DOMAIN files
            /\ sstables[i].index_path \in DOMAIN files
            /\ files[sstables[i].storage_path].storage # <<>>
            /\ files[sstables[i].index_path].index # <<>>

\* C31: the list holds the output of a compaction: its payloads are in a
\* file under indices/ and its index in a file of the same number under
\* storage/
C31_OutputInOtherDirectory ==
    /\ status = "open"
    /\ \E i \in 1..Len(sstables) :
          /\ sstables[i].storage_path[1] = "indices"
          /\ sstables[i].index_path[1] = "storage"
          /\ sstables[i].storage_path[2] = sstables[i].index_path[2]
          /\ sstables[i].storage_path \in DOMAIN files
          /\ sstables[i].index_path \in DOMAIN files
          /\ files[sstables[i].storage_path].storage # <<>>
          /\ files[sstables[i].index_path].index # <<>>

\* a step in which a call of SSTable::create by thread t returned
CreateReturned(t) == local'[t] # local[t] /\ local'[t].paths # <<>>

\* C32 (create refuses to overwrite): SSTable::create called with an empty
\* tree, or with a storage path or an index path at which a file exists,
\* returns an error, creates no file and leaves every file as it was.
C32_CreateRefusesToOverwrite ==
    [][\A t \in Threads :
          (/\ CreateReturned(t)
           /\ \/ tree = EmptyTree
              \/ local'[t].paths.storage_path \in DOMAIN files
              \/ local'[t].paths.index_path \in DOMAIN files)
             => local'[t].ret = Err /\ files' = files]_vars

\* C32: SSTable::create has returned an error to a caller whose tree holds
\* entries and whose storage path is unused: the index path names a file
\* that exists, and no file was created at the storage path
C32_RefusedForIndexPath ==
    /\ tree # EmptyTree
    /\ \E t \in Threads :
          /\ local[t].paths # <<>>
          /\ local[t].ret = Err
          /\ local[t].paths.storage_path \notin DOMAIN files
          /\ local[t].paths.index_path \in DOMAIN files

\* C33 (mutual exclusion): under any interleaving of threads calling insert,
\* delete and compact, at most one thread is between the snapshot of the
\* memtable and the push of its flush, at most one thread is in a
\* compaction, and a flush never starts on an empty memtable.
C33_MutualExclusion ==
    /\ Cardinality({t \in Threads : pc[t] \in FlushSteps}) <= 1
    /\ Cardinality({t \in Threads : pc[t] \in CompactSteps}) <= 1
    /\ \A t \in Threads : pc[t] \in FlushSteps => flush_mutex = t
    /\ \A t \in Threads : pc[t] \in CompactSteps => list_lock = t
    /\ \A t \in Threads : pc[t] = "flush_create_storage" => tree # EmptyTree

\* C33: a thread holds the flush mutex and has not yet built its SSTable,
\* and the other thread, whose mutation has been applied, waits for the
\* mutex with the memtable at the threshold
C33_SecondFlusherWaits ==
    \E t, u \in Threads :
        /\ t # u
        /\ pc[t] = "flush_create_storage" /\ flush_mutex = t
        /\ pc[u] = "flush_lock"
        /\ FlushReady(Cur, config)

\* the run has used up the files or the tables it may create: the flush
\* that thread t is about to begin is beyond what the model follows
BoundStops(t) ==
    /\ pc[t] = "flush_lock"
    /\ FlushReady(Cur, config)
    /\ \/ StorageCount(files) >= workload.max_files
       \/ Len(sstables) > MaxTables

\* C34 (deadlock freedom): with threads concurrently calling insert, delete,
\* get and compact, the locks are never acquired in a cyclic order, so under
\* fair scheduling every call that has begun eventually returns.
C34_EveryCallReturns ==
    \A t \in Threads :
        (pc[t] # "idle") ~> (pc[t] = "idle" \/ BoundStops(t))

\* C34: a call that will never return, while no thread holds a lock the
\* other waits for: the thread that made it has panicked
C34_CallEndedInPanic ==
    \E t \in Threads :
        /\ pc[t] = "panicked"
        /\ flush_mutex # t /\ tree_lock # t /\ list_lock # t

====
